---- MODULE Spec2Model ----
(***************************************************************************)
(* Model of autocoder (src/src/autocoder/main.py, config.py): the session  *)
(* loop Autocoder.auto_run, the four-step cycle Autocoder.run_cycle, the   *)
(* commit lookup get_latest_commit_info and the text extraction done on    *)
(* the assistant's replies.                                                *)
(*                                                                         *)
(* Texts are sequences of one-character strings.  Python's None is the     *)
(* empty sequence None and a present value v is Some(v) = <<v>>.           *)
(* Wall-clock values (timestamps, durations) are not modelled.             *)
(***************************************************************************)
EXTENDS Integers, Sequences, FiniteSets, TLC

\* ------------------------------------------------------------------ bounds
\* Largest -n value tried (the command line accepts any integer).
MaxCycles == 5
\* Most intermediate AssistantMessages the client delivers in one session.
MaxMsgs == 2
\* Longest api_key value tried by get_masked_config.
MaxSecretLen == 16
\* Most constructions of an Autocoder on one project directory.
MaxRuns == 2
\* Largest -n value of the sessions checked for termination.
MaxLiveCycles == 2

\* ------------------------------------------------------- option values
None == << >>
Some(v) == << v >>
IsNone(o) == o = << >>
Get(o) == o[1]

\* Python's `a or b` for an optional text: b when a is None or empty.
OrElse(o, d) == IF IsNone(o) \/ Get(o) = << >> THEN d ELSE Get(o)

\* ------------------------------------------------------------ characters
Upper == {"M", "S", "T"}
Lower1(c) == CASE c = "M" -> "m" [] c = "S" -> "s" [] c = "T" -> "t" [] OTHER -> c
\* str.lower()
ToLower(s) == [i \in 1..Len(s) |-> Lower1(s[i])]

\* str.isspace() for one character
IsSpace(c) == c \in {" ", "\n", "\t"}

\* `p in s` for strings
Contains(s, p) == \E i \in 0..(Len(s) - Len(p)) : SubSeq(s, i + 1, i + Len(p)) = p

\* str.strip()
Strip(s) ==
    LET idx == {i \in 1..Len(s) : ~IsSpace(s[i])}
    IN  IF idx = {} THEN << >>
        ELSE LET lo == CHOOSE i \in idx : \A j \in idx : i <= j
                 hi == CHOOSE i \in idx : \A j \in idx : j <= i
             IN  SubSeq(s, lo, hi)

\* str.split('\n'): the pieces between newlines, in order
RECURSIVE SplitLines(_)
SplitLines(s) ==
    LET nl == {i \in 1..Len(s) : s[i] = "\n"}
    IN  IF nl = {} THEN << s >>
        ELSE LET k == CHOOSE i \in nl : \A j \in nl : i <= j
             IN  << SubSeq(s, 1, k - 1) >> \o SplitLines(SubSeq(s, k + 1, Len(s)))

\* ------------------------------------------------------------- literals
S_marking == <<"m","a","r","k","i","n","g">>
S_selected == <<"s","e","l","e","c","t","e","d">>
S_inprogress == <<"[","~","]">>
S_tasklabel == <<"t","a","s","k",":">>
S_gitcommit == <<"g","i","t"," ","c","o","m","m","i","t">>
S_dashm == <<"-","m">>
S_done == <<"[","x","]">>
S_completed == <<"c","o","m","p","l","e","t","e","d">>
S_ellipsis == <<".",".",".">>
IsQuote(c) == c \in {"\"", "'"}

\* ------------------------------------------------- Response Extractor
\* Variant of FirstTaskLine: the line is taken as it stands, without strip().
FirstTaskLine_NoStrip(text) ==
    LET lines == SplitLines(text)
        hits == {i \in 1..Len(lines) :
                    Contains(lines[i], S_inprogress) \/ Contains(ToLower(lines[i]), S_tasklabel)}
    IN  IF hits = {} THEN None
        ELSE Some(lines[CHOOSE i \in hits : \A j \in hits : i <= j])

\* main.py 418-423: the first line of one text block that carries '[~]' or
\* 'task:'; None when the block has no such line.
FirstTaskLine(text) ==
    LET lines == SplitLines(text)
        hits == {i \in 1..Len(lines) :
                    Contains(lines[i], S_inprogress) \/ Contains(ToLower(lines[i]), S_tasklabel)}
    IN  IF hits = {} THEN None
        ELSE Some(Strip(lines[CHOOSE i \in hits : \A j \in hits : i <= j]))

\* Variant of ExtractTask: a task that was already found is kept.
ExtractTask_FirstWins(prev, text) ==
    IF ~IsNone(prev) THEN prev
    ELSE IF Contains(ToLower(text), S_marking) \/ Contains(ToLower(text), S_selected)
    THEN FirstTaskLine(text)
    ELSE prev

\* main.py 414-423: selected_task after one TextBlock of the step 1 reply.
ExtractTask(prev, text) ==
    IF Contains(ToLower(text), S_marking) \/ Contains(ToLower(text), S_selected)
    THEN IF IsNone(FirstTaskLine(text)) THEN prev ELSE FirstTaskLine(text)
    ELSE prev

\* The group of  ["\']([^"\']+)["\']  when  -m  sits at position j and \s*
\* has to bridge to the opening quote; None when that does not match.
QuotedAfter(s, j) ==
    LET k == j + Len(S_dashm)
        non == {q \in k..Len(s) : ~IsSpace(s[q])}
    IN  IF non = {} THEN None
        ELSE LET q == CHOOSE x \in non : \A y \in non : x <= y
                 cl == {r \in (q + 1)..Len(s) : IsQuote(s[r])}
             IN  IF ~IsQuote(s[q]) \/ cl = {} THEN None
                 ELSE LET r == CHOOSE x \in cl : \A y \in cl : x <= y
                      IN  IF r = q + 1 THEN None ELSE Some(SubSeq(s, q + 1, r - 1))

\* re.search(r'git commit.*?-m\s*["\']([^"\']+)["\']', text).group(1):
\* leftmost 'git commit', then the nearest '-m' on the same line after which
\* a quoted message follows.
CommitMatch(s) ==
    LET n == Len(S_gitcommit)
        ok(i, j) == /\ SubSeq(s, i, i + n - 1) = S_gitcommit
                    /\ j >= i + n
                    /\ j + 1 <= Len(s)
                    /\ SubSeq(s, j, j + 1) = S_dashm
                    /\ \A x \in (i + n)..(j - 1) : s[x] # "\n"
                    /\ ~IsNone(QuotedAfter(s, j))
        starts == {i \in 1..Len(s) : i + n - 1 <= Len(s) /\ \E j \in 1..Len(s) : ok(i, j)}
    IN  IF starts = {} THEN None
        ELSE LET i == CHOOSE x \in starts : \A y \in starts : x <= y
                 js == {j \in 1..Len(s) : ok(i, j)}
                 j == CHOOSE x \in js : \A y \in js : x <= y
             IN  QuotedAfter(s, j)

\* main.py 492-499: commit_message after one TextBlock of the step 3 reply.
ExtractCommit(prev, text) ==
    IF Contains(text, S_gitcommit) /\ Contains(text, S_dashm)
    THEN IF IsNone(CommitMatch(text)) THEN prev ELSE CommitMatch(text)
    ELSE prev

\* Variant of Truncate: the cut text gets no ellipsis.
Truncate_NoEllipsis(text, n) == IF Len(text) > n THEN SubSeq(text, 1, n) ELSE text

\* main.py 460 / 553: text[:n] + "..." if len(text) > n else text
Truncate(text, n) == IF Len(text) > n THEN SubSeq(text, 1, n) \o S_ellipsis ELSE text

\* ------------------------------------------------- Configuration Resolver
S_zai == <<"z",".","a","i">>
S_bedrock == <<"b","e","d","r","o","c","k">>
S_vertex == <<"v","e","r","t","e","x">>

\* Variant of get_api_info: 'bedrock' is tested before 'z.ai'.
get_api_info_BedrockFirst(cfg) ==
    IF ~IsNone(cfg.base_url) /\ Get(cfg.base_url) # << >>
    THEN [endpoint |-> Get(cfg.base_url),
          custom   |-> TRUE,
          provider |-> IF Contains(Get(cfg.base_url), S_bedrock) THEN "AWS Bedrock"
                       ELSE IF Contains(Get(cfg.base_url), S_zai) THEN "Zhipu (GLM-4.5)"
                       ELSE IF Contains(Get(cfg.base_url), S_vertex) THEN "Google Vertex AI"
                       ELSE "Custom API",
          model    |-> IF ~IsNone(cfg.model) /\ Get(cfg.model) # << >> THEN cfg.model ELSE None]
    ELSE [endpoint |-> <<"a","p","i",".","a","n","t","h","r","o","p","i","c",".","c","o","m">>,
          custom   |-> FALSE,
          provider |-> "Anthropic Claude",
          model    |-> IF ~IsNone(cfg.model) /\ Get(cfg.model) # << >> THEN cfg.model ELSE None]

\* config.py 53-78: AutocoderConfig.get_api_info.  `model` is None when the
\* result has no 'model' entry.
get_api_info(cfg) ==
    IF ~IsNone(cfg.base_url) /\ Get(cfg.base_url) # << >>
    THEN [endpoint |-> Get(cfg.base_url),
          custom   |-> TRUE,
          provider |-> IF Contains(Get(cfg.base_url), S_zai) THEN "Zhipu (GLM-4.5)"
                       ELSE IF Contains(Get(cfg.base_url), S_bedrock) THEN "AWS Bedrock"
                       ELSE IF Contains(Get(cfg.base_url), S_vertex) THEN "Google Vertex AI"
                       ELSE "Custom API",
          model    |-> IF ~IsNone(cfg.model) /\ Get(cfg.model) # << >> THEN cfg.model ELSE None]
    ELSE [endpoint |-> <<"a","p","i",".","a","n","t","h","r","o","p","i","c",".","c","o","m">>,
          custom   |-> FALSE,
          provider |-> "Anthropic Claude",
          model    |-> IF ~IsNone(cfg.model) /\ Get(cfg.model) # << >> THEN cfg.model ELSE None]

\* The configurations a session is constructed with (config.py 34-42; only
\* the entries main.py reads).
Configs ==
    { [base_url |-> None, model |-> None],
      [base_url |-> Some(<<"h","/","z",".","a","i">>), model |-> Some(<<"g","l","m">>)] }

\* ------------------------------------------------------- environment
\* The environment variables _load_configuration reads (config.py 34-42),
\* after load_dotenv has merged the project's .env file (27-31).
EnvOf(url, key, token, model, timeout) ==
    [ANTHROPIC_BASE_URL         |-> url,
     ANTHROPIC_API_KEY          |-> key,
     ANTHROPIC_AUTH_TOKEN       |-> token,
     ANTHROPIC_MODEL            |-> model,
     ANTHROPIC_SMALL_FAST_MODEL |-> None,
     API_TIMEOUT_MS             |-> timeout,
     AWS_REGION                 |-> None,
     VERTEX_PROJECT_ID          |-> None]

\* No variable is set.
NoEnv == EnvOf(None, None, None, None, None)

U_zai == <<"h","/","z",".","a","i">>
U_bedrock == <<"h","/","b","e","d","r","o","c","k">>
U_vertex == <<"h","/","v","e","r","t","e","x">>
U_other == <<"h","/","x">>
U_zai_bedrock == <<"h","/","z",".","a","i","/","b","e","d","r","o","c","k">>
U_vertex_bedrock == <<"h","/","v","e","r","t","e","x",".","b","e","d","r","o","c","k">>

\* Environments an AutocoderConfig is constructed in.
Envs ==
    { EnvOf(url, key, token, model, timeout) :
        url \in {None, Some(<< >>), Some(U_zai), Some(U_bedrock), Some(U_vertex), Some(U_other),
                 Some(U_zai_bedrock), Some(U_vertex_bedrock)},
        key \in {None, Some(<<"k">>)},
        token \in {None, Some(<<"t">>)},
        model \in {None, Some(<< >>), Some(<<"g","l","m">>)},
        timeout \in {None, Some(<<"3","0">>), Some(<<"x">>)} }

\* What the environment is changed to after the construction.
LaterEnvs ==
    { NoEnv,
      EnvOf(Some(U_zai), Some(<<"k">>), None, Some(<<"g","l","m">>), Some(<<"3","0">>)),
      EnvOf(Some(U_bedrock), None, Some(<<"t">>), None, Some(<<"x">>)) }

\* Python's `a or b` for two optional texts.
PyOr(a, b) == IF IsNone(a) \/ Get(a) = << >> THEN b ELSE a

Digits == <<"0","1","2","3","4","5","6","7","8","9">>
DigitVal(c) == (CHOOSE i \in 1..10 : Digits[i] = c) - 1
IsDigits(t) == t # << >> /\ \A i \in 1..Len(t) : \E j \in 1..10 : Digits[j] = t[i]

\* int(t) for a text of decimal digits
RECURSIVE IntOf(_)
IntOf(t) == IF t = << >> THEN 0 ELSE 10 * IntOf(SubSeq(t, 1, Len(t) - 1)) + DigitVal(t[Len(t)])

\* config.py 44-51: AutocoderConfig._parse_int, for absent values, digit
\* texts and texts that int() rejects.
parse_int(value) ==
    IF IsNone(value) THEN None
    ELSE IF IsDigits(Get(value)) THEN Some(IntOf(Get(value)))
    ELSE None

\* config.py 25-42: AutocoderConfig._load_configuration, the dictionary built
\* from the environment e.
load_configuration(e) ==
    [base_url         |-> e.ANTHROPIC_BASE_URL,
     api_key          |-> PyOr(e.ANTHROPIC_API_KEY, e.ANTHROPIC_AUTH_TOKEN),
     model            |-> e.ANTHROPIC_MODEL,
     small_fast_model |-> e.ANTHROPIC_SMALL_FAST_MODEL,
     timeout_ms       |-> parse_int(e.API_TIMEOUT_MS),
     bedrock_region   |-> e.AWS_REGION,
     vertex_project   |-> e.VERTEX_PROJECT_ID]

\* config.py 89-91: AutocoderConfig.has_custom_config
has_custom_config(cfg) == \E k \in DOMAIN cfg : ~IsNone(cfg[k])

\* config.py 34-42: the keys of self.config, spelled out so that the substring
\* test of get_masked_config can be applied to them.
KeyName ==
    [base_url         |-> <<"b","a","s","e","_","u","r","l">>,
     api_key          |-> <<"a","p","i","_","k","e","y">>,
     model            |-> <<"m","o","d","e","l">>,
     small_fast_model |-> <<"s","m","a","l","l","_","f","a","s","t","_","m","o","d","e","l">>,
     timeout_ms       |-> <<"t","i","m","e","o","u","t","_","m","s">>,
     bedrock_region   |-> <<"b","e","d","r","o","c","k","_","r","e","g","i","o","n">>,
     vertex_project   |-> <<"v","e","r","t","e","x","_","p","r","o","j","e","c","t">>]

S_key == <<"k","e","y">>
S_token == <<"t","o","k","e","n">>
S_stars == <<"*","*","*">>
S_dots == <<".",".",".">>
MaskHead == 8
MaskTail == 4
MaskMinLen == 12

\* config.py 99: the entries whose value is masked.
IsSecretKey(k) ==
    Contains(ToLower(KeyName[k]), S_key) \/ Contains(ToLower(KeyName[k]), S_token)

\* Variant of MaskValue: values longer than MaskHead keep their two ends.
MaskValue_Short(value) ==
    IF Len(value) > MaskHead
    THEN SubSeq(value, 1, MaskHead) \o S_dots
         \o SubSeq(value, IF Len(value) > MaskTail THEN Len(value) - MaskTail + 1 ELSE 1,
                   Len(value))
    ELSE S_stars

\* config.py 100: f"{value[:8]}...{value[-4:]}" if len(value) > 12 else "***"
MaskValue(value) ==
    IF Len(value) > MaskMinLen
    THEN SubSeq(value, 1, MaskHead) \o S_dots
         \o SubSeq(value, Len(value) - MaskTail + 1, Len(value))
    ELSE S_stars

\* config.py 93-103: AutocoderConfig.get_masked_config; entries that are None
\* are left out of the result.
get_masked_config(cfg) ==
    [k \in {key \in DOMAIN cfg : ~IsNone(cfg[key])} |->
        IF IsSecretKey(k) THEN MaskValue(Get(cfg[k])) ELSE Get(cfg[k])]

\* api_key values: for each length up to MaxSecretLen a key-like text, a text
\* with dots in its 9th to 11th place, and a text of asterisks.
SecretAlphabet == <<"s","k","-","a","7">>
SecretChar(i, k) ==
    CASE k = 1 -> SecretAlphabet[(i % 5) + 1]
      [] k = 2 -> IF i \in 9..11 THEN "." ELSE SecretAlphabet[((2 * i) % 5) + 1]
      [] k = 3 -> "*"
Secrets == { [i \in 1..n |-> SecretChar(i, k)] : n \in 0..MaxSecretLen, k \in 1..3 }

\* config.py 34-42: configurations with every entry of self.config, as
\* get_masked_config reads them.
MaskConfigs ==
    { [base_url         |-> u,
       api_key          |-> a,
       model            |-> None,
       small_fast_model |-> None,
       timeout_ms       |-> t,
       bedrock_region   |-> None,
       vertex_project   |-> Some(<<"p","1">>)] :
        u \in {None, Some(<<"h","/","z",".","a","i">>)},
        a \in {None} \cup {Some(v) : v \in Secrets},
        t \in {None, Some(3000)} }

\* ------------------------------------------------- project directory
\* main.py 31, 66, 117, 163, 216: the paths ensure_project_structure looks at.
AgentsDir == ".claude/agents"
TodoFile == "todo.md"
AgentFiles == {"todo-agent.md", "developer.md", "git-agent.md"}
Paths == {AgentsDir, TodoFile} \cup AgentFiles

\* The days on which an Autocoder is constructed (main.py 110 writes the date
\* into the todo template).
Days == {1, 2}

\* main.py 78-111, 121-157, 167-210, 220-273: the text written to a missing
\* file; the todo template carries the day.
Template(path, day) == IF path = TodoFile THEN << path, day >> ELSE << path >>

\* What a file that is already there can hold: text of the user, nothing, or
\* a template written earlier.
Existing(path) == {<< "user text" >>, << >>} \cup {Template(path, d) : d \in Days}

\* No path exists / the state after a first construction on day 1.
EmptyProject == [p \in Paths |-> None]
ReadyProject ==
    [p \in Paths |-> IF p = AgentsDir THEN Some(<< "directory" >>) ELSE Some(Template(p, 1))]

\* The project directories an Autocoder can be constructed on: each file is
\* absent or there, and agent files are there only when their directory is.
Projects ==
    { f \in [Paths -> {None} \cup {Some(<< "directory" >>)}
                             \cup UNION {{Some(c) : c \in Existing(p)} : p \in Paths}] :
        /\ f[AgentsDir] \in {None, Some(<< "directory" >>)}
        /\ \A p \in Paths \ {AgentsDir} : f[p] \in {None} \cup {Some(c) : c \in Existing(p)}
        /\ IsNone(f[AgentsDir]) => \A p \in AgentFiles : IsNone(f[p]) }

\* Variant of WriteIfMissing: the file is written whether or not it exists.
WriteIfMissing_Always(f, path, content) == [f EXCEPT ![path] = Some(content)]

\* main.py 68-69, 118-119/158, 164-165/211, 217-218/274: write_text unless
\* the path exists.
WriteIfMissing(f, path, content) ==
    IF ~IsNone(f[path]) THEN f ELSE [f EXCEPT ![path] = Some(content)]

\* main.py 62-74: Autocoder.ensure_project_structure on the directory f, on
\* the given day.
ensure_project_structure(f, day) ==
    LET f0 == [f EXCEPT ![AgentsDir] = Some(<< "directory" >>)]
        f1 == WriteIfMissing(f0, TodoFile, Template(TodoFile, day))
        f2 == WriteIfMissing(f1, "todo-agent.md", Template("todo-agent.md", day))
        f3 == WriteIfMissing(f2, "developer.md", Template("developer.md", day))
    IN  WriteIfMissing(f3, "git-agent.md", Template("git-agent.md", day))

\* ------------------------------------------------------- commit lookup
GitOutcomes == {"missing", "timeout", "nonzero", "ok"}
GhOutcomes == {"missing", "timeout", "nonzero", "badjson", "nourl", "ok"}
\* stdout of `git rev-parse HEAD` (shortened to 9 characters) and the url of
\* `gh repo view --json url`
GitStdout == <<"a","1","b","2","c","3","d","4","e","\n">>
\* main.py 292: commit_hash = result.stdout.strip()
CommitHash == Strip(GitStdout)
RepoUrl == <<"h","/","r">>
S_commitpath == <<"/","c","o","m","m","i","t","/">>
ShortLen == 7

\* Variant of Prefix: the slice is one character too long.
Prefix_OneMore(s, n) == SubSeq(s, 1, IF Len(s) < n + 1 THEN Len(s) ELSE n + 1)

\* s[:n]
Prefix(s, n) == SubSeq(s, 1, IF Len(s) < n THEN Len(s) ELSE n)

\* main.py 277-328: Autocoder.get_latest_commit_info, for one outcome of the
\* two subprocess calls.  `raised` names the exception that leaves the
\* function: `json` is a local of the function, bound only by the import on
\* line 306, so evaluating the except clause of line 317 for a gh that is
\* missing or timed out raises UnboundLocalError.
get_latest_commit_info(git, gh) ==
    IF git \in {"missing", "timeout"}
    THEN [raised |-> None, info |-> None,
          error |-> Some(IF git = "missing" THEN "Git command failed: FileNotFoundError"
                         ELSE "Git command failed: TimeoutExpired")]
    ELSE IF git = "nonzero"
    THEN [raised |-> None, info |-> None, error |-> Some("No git repository or commits found")]
    ELSE IF gh \in {"missing", "timeout"}
    THEN [raised |-> Some([type |-> "UnboundLocalError", text |-> "json"]),
          info |-> None, error |-> None]
    ELSE IF gh = "ok"
    THEN [raised |-> None,
          info   |-> Some([hash |-> CommitHash, short_hash |-> Prefix(CommitHash, ShortLen),
                           url |-> Some(RepoUrl \o S_commitpath \o CommitHash)]),
          error  |-> None]
    ELSE [raised |-> None,
          info   |-> Some([hash |-> CommitHash, short_hash |-> Prefix(CommitHash, ShortLen),
                           url |-> None]),
          error  |-> None]

\* ------------------------------------------------------ session summary
\* n/d rounded to the nearest integer, ties to even (d > 0, n >= 0)
RoundHalfEven(n, d) ==
    LET q == n \div d
        r == n % d
    IN  IF 2 * r < d THEN q
        ELSE IF 2 * r > d THEN q + 1
        ELSE IF q % 2 = 0 THEN q ELSE q + 1

\* Variant of success_rate: integer division (completed_cycles // max_cycles).
success_rate_IntDiv(completed, max) ==
    << (IF max > 0 THEN completed \div max ELSE 0) * 100, 0 >>

\* main.py 665: f"{(completed_cycles/max_cycles)*100:.1f}%" as the pair
\* <<integer part, tenths digit>>; completed_cycles is 0 whenever
\* max_cycles < 0, which formats as -0.0 (sign not kept here).
success_rate(completed, max) ==
    LET t == IF max > 0 THEN RoundHalfEven(1000 * completed, max) ELSE 0
    IN  << t \div 10, t % 10 >>

\* ===================================================== the session model
\* Values the command line passes as max_cycles (main.py 693-695, 715): any
\* integer; the ones tried here.
ArgCycles == {-1, 0} \cup (1..MaxLiveCycles) \cup {MaxCycles}

\* Exceptions the SDK client raises (subclasses of Exception).
Faults == { [type |-> "CLIConnectionError", text |-> "not connected"],
            [type |-> "ProcessError", text |-> "exit code 1"] }

\* Text blocks the assistant sends in this model.
T_plain == <<"o","k">>
T_mark == <<"M","a","r","k","i","n","g","\n"," ","[","~","]"," ","A">>
T_commit == <<"g","i","t"," ","c","o","m","m","i","t"," ","-","m"," ","\"","f","\"">>
T_done == <<"[","x","]">>
ReplyTexts == {T_plain, T_mark, T_commit, T_done}

\* main.py 460, 553
Step2LogCap == 200
Step4LogCap == 150

\* Further text blocks, received in the specification of a single reply:
\* an empty text, a second task under the word 'selected', a marker line in
\* a text without 'marking' or 'selected', two marker lines in one text, a
\* second commit invocation, a commit invocation without a quoted message,
\* and texts around the two log caps that carry the '[x]' of step 4.
T_empty == << >>
T_select == <<"s","e","l","e","c","t","e","d"," ","t","a","s","k",":"," ","B">>
T_ungated == <<"[","~","]"," ","C">>
T_two == <<"S","e","l","e","c","t","e","d","\n","[","~","]"," ","D"," ","\n","T","a","s","k",":"," ","E">>
T_commit2 == <<"g","i","t"," ","c","o","m","m","i","t"," ","-","a"," ","-","m"," ","'","g","'">>
T_nomsg == <<"g","i","t"," ","c","o","m","m","i","t"," ","-","m">>
LongText(n) == [i \in 1..n |-> IF i <= Len(S_done) THEN S_done[i] ELSE "a"]
LongLens == {Step4LogCap - 1, Step4LogCap, Step4LogCap + 1,
             Step2LogCap - 1, Step2LogCap, Step2LogCap + 1, Step2LogCap + 4}
StudyTexts ==
    ReplyTexts \cup {T_empty, T_select, T_ungated, T_two, T_commit2, T_nomsg}
               \cup {LongText(n) : n \in LongLens}

VARIABLES
    config,            \* self.config.config, fixed at construction
    max_cycles,        \* auto_run's argument
    cycle,             \* auto_run's loop variable (0 before the first iteration)
    completed_cycles,  \* auto_run's counter
    pc,                \* where the single thread of control is
    step,              \* the step run_cycle is in (0 outside a cycle)
    client,            \* "none" | "open" | "closed": the ClaudeSDKClient of this cycle
    task_selected,     \* run_cycle local
    selected_task,     \* run_cycle local (optional text)
    commit_message,    \* run_cycle local (optional text)
    retval,            \* value of a `return` waiting for the async-with to exit
    exc,               \* exception in flight inside run_cycle (optional)
    ret,               \* what the last run_cycle returned (optional BOOLEAN)
    log,               \* the log entries appended since the current cycle was
                       \* started (the file is append-only; older lines are
                       \* never read back)
    sent,              \* history: step instructions passed to client.query this cycle
    got,               \* history: terminal ResultMessage seen per step this cycle
    inflight,          \* history: steps whose reply stream is still open
    rets,              \* history: return values of all run_cycle calls
    pauses,            \* history: cycles after which asyncio.sleep ran
    calls,             \* history: number of run_cycle invocations
    faults,            \* history: client faults raised during this cycle, in order
    completed_before,  \* history: completed_cycles when this cycle was started
    msgs,              \* intermediate messages delivered so far
    blocks,            \* history: text blocks received on the current reply stream
    lookups,           \* history: results of get_latest_commit_info() this cycle
    sessions,          \* history: cycles whose client session is open
    requests,          \* history: number of client.query calls of the session
    masked,            \* result of the last get_masked_config() call (optional)
    api_info,          \* result of the last get_api_info() call (optional)
    custom,            \* result of the last has_custom_config() call (optional)
    env,               \* os.environ as it is now
    env0,              \* history: os.environ when the AutocoderConfig was constructed
    fs,                \* the project directory: path -> optional content
    fs0,               \* history: the project directory before the first construction
    runs,              \* history: number of ensure_project_structure() calls
    raised             \* exception that left auto_run (optional)

vars == << config, max_cycles, cycle, completed_cycles, pc, step, client, task_selected,
           selected_task, commit_message, retval, exc, ret, log, sent, got, inflight,
           rets, pauses, calls, faults, completed_before, msgs, blocks, lookups, sessions,
           requests, masked, api_info, custom, env, env0, fs, fs0, runs, raised >>

cycleLocals == << step, client, task_selected, selected_task, commit_message, retval, exc,
                  sent, got, inflight, faults, completed_before, blocks, lookups >>
\* Results of the AutocoderConfig getters and the process environment.
configCalls == << masked, api_info, custom, env, env0 >>

\* The project directory.
projectFiles == << fs, fs0, runs >>

sessionVars == << sessions, configCalls, projectFiles, config, max_cycles, cycle, completed_cycles, rets, pauses, calls, raised >>

NoResults == [n \in 1..4 |-> "none"]

\* main.py 330-349: log_detailed(level, message, **kwargs)
Entry(level, msg, kw) == [level |-> level, msg |-> msg, kw |-> kw]

\* State after Autocoder(...) is constructed and auto_run(max_cycles) has run
\* up to its loop (main.py 589-619).
Init ==
    /\ config \in Configs
    /\ max_cycles \in ArgCycles
    /\ cycle = 0
    /\ completed_cycles = 0
    /\ pc = "loop"
    /\ step = 0
    /\ client = "none"
    /\ task_selected = FALSE
    /\ selected_task = None
    /\ commit_message = None
    /\ retval = None
    /\ exc = None
    /\ ret = None
    /\ log = << Entry("info", "Starting autonomous coding session",
                      [max_cycles |-> max_cycles, api_provider |-> get_api_info(config).provider]) >>
    /\ sent = << >>
    /\ got = NoResults
    /\ inflight = {}
    /\ rets = << >>
    /\ pauses = {}
    /\ calls = 0
    /\ faults = << >>
    /\ completed_before = 0
    /\ msgs = 0
    /\ blocks = << >>
    /\ lookups = << >>
    /\ sessions = {}
    /\ requests = 0
    /\ masked = None
    /\ api_info = None
    /\ custom = None
    /\ fs = ReadyProject
    /\ fs0 = EmptyProject
    /\ runs = 1
    /\ env = NoEnv
    /\ env0 = NoEnv
    /\ raised = None

\* Fixed texts the code puts in place of a missing extraction (one-element
\* texts, so that they compare with extracted texts).
P_details == << "Task details in response above" >>
P_fromstep1 == << "Task from Step 1" >>
P_seegitlog == << "See git log" >>

\* A client call that completes without raising.
NoFault == [type |-> "none", text |-> ""]

\* Variant of ExceptEntry: the handler logs the exception type only.
ExceptEntry_NoText(e) ==
    Entry("error", "Work cycle failed with exception", [error |-> "", exception_type |-> e.type])

\* main.py 580-587: the except handler of run_cycle
ExceptEntry(e) ==
    Entry("error", "Work cycle failed with exception", [error |-> e.text, exception_type |-> e.type])

\* Variant of HasNextCycle: the range has one more element.
HasNextCycle_OneMore == cycle <= max_cycles

\* main.py 621: `for cycle in range(1, max_cycles + 1)` has a next element
\* after `cycle`.
HasNextCycle == cycle < max_cycles

\* main.py 621-629: the for statement takes the next cycle, or the range is
\* exhausted and control reaches the summary.
LoopNext ==
    /\ pc = "loop"
    /\ IF HasNextCycle
       THEN /\ cycle' = cycle + 1
            /\ log' = << Entry("info", "Starting cycle",
                               [cycle |-> cycle + 1, max_cycles |-> max_cycles]) >>
            /\ pc' = "run_cycle"
       ELSE /\ pc' = "summary"
            /\ UNCHANGED << cycle, log >>
    /\ UNCHANGED << sessions, requests, configCalls, projectFiles, config, max_cycles, completed_cycles, rets, pauses, calls, raised, ret, msgs >>
    /\ UNCHANGED cycleLocals

\* main.py 351-390: run_cycle up to the async with.
RunCycleBegin ==
    /\ pc = "run_cycle"
    /\ log' = log \o
         << Entry("info", "Starting new work cycle", [cycle |-> cycle]),
            IF get_api_info(config).custom
            THEN Entry("info", "Using custom API configuration",
                       [provider |-> get_api_info(config).provider,
                        endpoint |-> get_api_info(config).endpoint,
                        model    |-> OrElse(get_api_info(config).model, << "default" >>)])
            ELSE Entry("info", "Using default API configuration",
                       [provider |-> get_api_info(config).provider]) >>
    /\ step' = 0
    /\ client' = "none"
    /\ task_selected' = FALSE
    /\ selected_task' = None
    /\ commit_message' = None
    /\ retval' = None
    /\ exc' = None
    /\ sent' = << >>
    /\ got' = NoResults
    /\ inflight' = {}
    /\ faults' = << >>
    /\ blocks' = << >>
    /\ lookups' = << >>
    /\ completed_before' = completed_cycles
    /\ calls' = calls + 1
    /\ pc' = "open"
    /\ UNCHANGED << ret, msgs >>
    /\ UNCHANGED << sessions, requests, configCalls, projectFiles, config, max_cycles, cycle, completed_cycles, rets, pauses, raised >>

\* run_cycle hands v back to auto_run (the value of `await self.run_cycle()`).
Returns(v) ==
    /\ ret' = Some(v)
    /\ rets' = Append(rets, v)
    /\ pc' = "returned"

\* main.py 392: ClaudeSDKClient.__aenter__ connects.  A fault here reaches the
\* except handler directly (580-587); __aexit__ is not run.
OpenClient ==
    /\ pc = "open"
    /\ \E o \in {NoFault} \cup Faults :
         IF o = NoFault
         THEN /\ client' = "open"
              /\ sessions' = sessions \cup {cycle}
              /\ step' = 1
              /\ pc' = "query"
              /\ UNCHANGED << log, ret, rets >>
              /\ faults' = faults
         ELSE /\ log' = Append(log, ExceptEntry(o))
              /\ Returns(FALSE)
              /\ faults' = Append(faults, o)
              /\ UNCHANGED << client, step, sessions >>
    /\ UNCHANGED << task_selected, selected_task, commit_message, retval, exc, sent, got,
                    inflight, completed_before, msgs, blocks, lookups >>
    /\ UNCHANGED << requests, configCalls, projectFiles, config, max_cycles, cycle, completed_cycles, pauses, calls, raised >>

\* What each step logs before it sends its instruction (398, 446, 479, 538).
StartEntry(n) ==
    CASE n = 1 -> Entry("info", "Step 1: Starting todo analysis", [step |-> 1])
      [] n = 2 -> Entry("info", "Step 2: Starting task implementation",
                        [step |-> 2, task |-> OrElse(selected_task, P_fromstep1)])
      [] n = 3 -> Entry("info", "Step 3: Starting git commit process", [step |-> 3])
      [] n = 4 -> Entry("info", "Step 4: Starting todo status update", [step |-> 4])

\* main.py 397-402, 445-451, 478-483, 537-542: await client.query(instruction
\* of the current step).  A fault leaves the async-with body.
Query ==
    /\ pc = "query"
    /\ log' = Append(log, StartEntry(step))
    /\ sent' = Append(sent, step)
    /\ requests' = requests + 1
    /\ blocks' = << >>
    /\ \E o \in {NoFault} \cup Faults :
         IF o = NoFault
         THEN /\ inflight' = inflight \cup {step}
              /\ pc' = "recv"
              /\ exc' = exc
              /\ faults' = faults
         ELSE /\ exc' = Some(o)
              /\ faults' = Append(faults, o)
              /\ pc' = "close"
              /\ inflight' = inflight
    /\ UNCHANGED << step, client, task_selected, selected_task, commit_message, retval, got,
                    completed_before, ret, msgs, lookups >>
    /\ UNCHANGED sessionVars

\* Variant of AfterLoop: step 1 lacks the `if not task_selected: return False`
\* of 440-441.
AfterLoop_NoStep1Check(n, ts, lg) ==
    IF n < 4
    THEN /\ step' = n + 1
         /\ pc' = "query"
         /\ retval' = retval
         /\ log' = lg
    ELSE /\ log' = Append(lg, Entry("info", "Work cycle completed successfully",
                                    [task_completed |-> OrElse(selected_task, P_fromstep1)]))
         /\ retval' = Some(TRUE)
         /\ pc' = "close"
         /\ step' = step

\* The code after the `async for` of step n, entered by `break` or because
\* the stream ended: 440-441 after step 1, the next step's query after steps
\* 2 and 3, 570-578 after step 4.  ts is task_selected, lg the log so far.
AfterLoop(n, ts, lg) ==
    IF n = 1 /\ ~ts
    THEN /\ retval' = Some(FALSE)
         /\ pc' = "close"
         /\ step' = step
         /\ log' = lg
    ELSE IF n < 4
    THEN /\ step' = n + 1
         /\ pc' = "query"
         /\ retval' = retval
         /\ log' = lg
    ELSE /\ log' = Append(lg, Entry("info", "Work cycle completed successfully",
                                    [task_completed |-> OrElse(selected_task, P_fromstep1)]))
         /\ retval' = Some(TRUE)
         /\ pc' = "close"
         /\ step' = step

\* `return False` inside the async-with body (469, 508, 563).
ReturnFalse(lg) ==
    /\ retval' = Some(FALSE)
    /\ pc' = "close"
    /\ step' = step
    /\ log' = lg

\* main.py 415, 460-461, 552-554: what step n writes to the log for one
\* TextBlock of its reply.
BlockEntries(n, text) ==
    CASE n = 1 -> << Entry("info", "Step 1 Response", [text |-> text]) >>
      [] n = 2 -> << Entry("info", "Step 2 Implementation",
                           [text |-> Truncate(text, Step2LogCap)]) >>
      [] n = 3 -> << >>
      [] n = 4 -> IF Contains(text, S_done) \/ Contains(ToLower(text), S_completed)
                  THEN << Entry("info", "Step 4 Update", [text |-> Truncate(text, Step4LogCap)]) >>
                  ELSE << >>

\* main.py 409-423, 455-461, 488-499, 546-554: an AssistantMessage with one
\* TextBlock arrives on the reply stream of the current step.
RecvBlock(text) ==
    /\ pc = "recv"
    /\ msgs < MaxMsgs
    /\ msgs' = msgs + 1
    /\ blocks' = Append(blocks, text)
    /\ selected_task' = IF step = 1 THEN ExtractTask(selected_task, text) ELSE selected_task
    /\ commit_message' = IF step = 3 THEN ExtractCommit(commit_message, text)
                         ELSE commit_message
    /\ log' = log \o BlockEntries(step, text)
    /\ UNCHANGED << pc, step, client, task_selected, retval, exc, ret, sent, got, inflight,
                    faults, completed_before, lookups, requests >>
    /\ UNCHANGED sessionVars

\* The client delivers one of the text blocks of this model.
RecvText == \E text \in ReplyTexts : RecvBlock(text)

\* The verdict entry of step n for a non-error ResultMessage; ci is the result
\* of get_latest_commit_info (used by step 3 only; 513-532).
OkEntry(n, ci) ==
    CASE n = 1 -> Entry("info", "Step 1: Task selected successfully",
                        [step |-> 1, task |-> OrElse(selected_task, P_details)])
      [] n = 2 -> Entry("info", "Step 2: Implementation completed successfully", [step |-> 2])
      [] n = 3 -> IF ~IsNone(ci.info)
                  THEN IF ~IsNone(Get(ci.info).url)
                       THEN Entry("info", "Step 3: Git commit successful with GitHub link",
                                  [step |-> 3, commit_hash |-> Get(ci.info).short_hash,
                                   commit_url |-> Get(Get(ci.info).url),
                                   commit_message |-> OrElse(commit_message, P_seegitlog)])
                       ELSE Entry("info", "Step 3: Git commit successful",
                                  [step |-> 3, commit_hash |-> Get(ci.info).short_hash,
                                   commit_message |-> OrElse(commit_message, P_seegitlog)])
                  ELSE Entry("info", "Step 3: Git commit completed",
                             [step |-> 3, commit_message |-> OrElse(commit_message, P_seegitlog),
                              note |-> IF IsNone(ci.error) THEN "Could not retrieve commit info"
                                       ELSE Get(ci.error)])
      [] n = 4 -> Entry("info", "Step 4: Todo status updated successfully", [step |-> 4])

\* The verdict entry of step n for a ResultMessage with is_error (433-437,
\* 464-468, 503-507, 558-562).
ErrEntry(n) ==
    CASE n = 1 -> Entry("info", "Step 1: No tasks available",
                        [step |-> 1, reason |-> "No uncompleted tasks found"])
      [] n = 2 -> Entry("error", "Step 2: Implementation failed", [step |-> 2, error |-> "result"])
      [] n = 3 -> Entry("error", "Step 3: Git commit failed", [step |-> 3, error |-> "result"])
      [] n = 4 -> Entry("error", "Step 4: Todo update failed", [step |-> 4, error |-> "result"])

\* Variant of Failed: only step 1 looks at is_error.
Failed_OnlyStep1(n, is_error) == is_error /\ n = 1

\* main.py 426/440, 464, 503, 558: a ResultMessage with is_error makes step n
\* end the cycle with False.
Failed(n, is_error) == is_error

\* Variant of TaskSelected: a task description must have been extracted too.
TaskSelected_NeedsTask(is_error) == ~is_error /\ ~IsNone(selected_task)

\* main.py 426: task_selected = not message.is_error
TaskSelected(is_error) == ~is_error

\* main.py 425-441, 462-474, 501-533, 556-578: the ResultMessage of the
\* current step arrives; the handler runs up to the next await.
RecvResult ==
    /\ pc = "recv"
    /\ \E is_error \in BOOLEAN :
       \E git \in (IF step = 3 /\ ~is_error THEN GitOutcomes ELSE {"ok"}) :
       \E gh \in (IF step = 3 /\ ~is_error /\ git = "ok" THEN GhOutcomes ELSE {"ok"}) :
         LET ci == get_latest_commit_info(git, gh)
         IN  /\ got' = [got EXCEPT ![step] = IF is_error THEN "error" ELSE "ok"]
             /\ inflight' = inflight \ {step}
             /\ lookups' = IF step = 3 /\ ~is_error THEN Append(lookups, ci) ELSE lookups
             /\ task_selected' = IF step = 1 THEN TaskSelected(is_error) ELSE task_selected
             /\ IF Failed(step, is_error)
                THEN /\ ReturnFalse(Append(log, ErrEntry(step)))
                     /\ exc' = exc
                ELSE IF step = 3 /\ ~IsNone(ci.raised)
                THEN /\ exc' = ci.raised
                     /\ pc' = "close"
                     /\ UNCHANGED << step, retval, log >>
                ELSE /\ AfterLoop(step,
                               IF step = 1 THEN TaskSelected(is_error) ELSE task_selected,
                               Append(log, OkEntry(step, ci)))
                     /\ exc' = exc
    /\ UNCHANGED << client, selected_task, commit_message, ret, sent, faults,
                    completed_before, msgs, blocks, requests >>
    /\ UNCHANGED sessionVars

\* The reply stream of the current step ends without a ResultMessage (the
\* SDK's receive_response stops when the underlying message stream stops):
\* the `async for` is exhausted and control falls to the code after it.
RecvEnd ==
    /\ pc = "recv"
    /\ inflight' = inflight \ {step}
    /\ AfterLoop(step, task_selected, log)
    /\ UNCHANGED << client, task_selected, selected_task, commit_message, exc, ret, sent, got,
                    faults, completed_before, msgs, blocks, lookups, requests >>
    /\ UNCHANGED sessionVars

\* client.receive_response() raises while the stream is read.
RecvFault ==
    /\ pc = "recv"
    /\ \E f \in Faults : exc' = Some(f) /\ faults' = Append(faults, f)
    /\ inflight' = inflight \ {step}
    /\ pc' = "close"
    /\ UNCHANGED << step, client, task_selected, selected_task, commit_message, retval, ret,
                    log, sent, got, completed_before, msgs, blocks, lookups, requests >>
    /\ UNCHANGED sessionVars

\* Variant of SessionsAfterExit: the session is left open when an exception
\* leaves the async-with body.
SessionsAfterExit_LeakOnFault == IF IsNone(exc) THEN sessions \ {cycle} ELSE sessions

\* main.py 392: leaving the async-with body, by return or by exception, runs
\* __aexit__, which disconnects the client of this cycle.
SessionsAfterExit == sessions \ {cycle}

\* main.py 392 on the way out: ClaudeSDKClient.__aexit__ disconnects, then the
\* pending return completes or the pending exception (or the one raised by
\* the disconnect) reaches the except handler of 580-587.
CloseClient ==
    /\ pc = "close"
    /\ client' = "closed"
    /\ sessions' = SessionsAfterExit
    /\ \E o \in {NoFault} \cup Faults :
         /\ faults' = IF o = NoFault THEN faults ELSE Append(faults, o)
         /\ IF o = NoFault /\ IsNone(exc)
            THEN /\ Returns(Get(retval))
                 /\ log' = log
            ELSE /\ log' = Append(log, ExceptEntry(IF o = NoFault THEN Get(exc) ELSE o))
                 /\ Returns(FALSE)
    /\ exc' = None
    /\ UNCHANGED << step, task_selected, selected_task, commit_message, retval, sent, got,
                    inflight, completed_before, msgs, blocks, lookups >>
    /\ UNCHANGED << requests, configCalls, projectFiles, config, max_cycles, cycle, completed_cycles, pauses, calls, raised >>

\* Variant of CountAfter: the counter is never incremented.
CountAfter_NoInc(success) == completed_cycles

\* main.py 633-634: completed_cycles after a cycle that returned `success`.
CountAfter(success) == IF success THEN completed_cycles + 1 ELSE completed_cycles

\* Variant of MoreCycles: the pause does not look at the cycle number.
MoreCycles_Always == TRUE

\* main.py 640: `if cycle < max_cycles`, the test that guards the pause.
MoreCycles == cycle < max_cycles

\* Variant of AfterCyclePc: the `break` of 648 is missing.
AfterCyclePc_NoBreak(success) ==
    IF success THEN (IF MoreCycles THEN "pause" ELSE "loop") ELSE "loop"

\* main.py 633-648: where auto_run goes after a cycle that returned
\* `success`: the pause when more cycles remain, the for statement after the
\* last one, and out of the loop (break) when the cycle did not succeed.
AfterCyclePc(success) ==
    IF success THEN (IF MoreCycles THEN "pause" ELSE "loop") ELSE "summary"

\* main.py 631-648: auto_run takes the value of run_cycle.
AfterCycle ==
    /\ pc = "returned"
    /\ completed_cycles' = CountAfter(Get(ret))
    /\ pc' = AfterCyclePc(Get(ret))
    /\ log' = Append(log,
                     IF Get(ret)
                     THEN Entry("info", "Cycle completed successfully",
                                [cycle |-> cycle, cycles_completed |-> CountAfter(Get(ret))])
                     ELSE Entry("info", "Session ended after cycle",
                                [cycle |-> cycle,
                                 reason |-> "No tasks available or cycle failed",
                                 cycles_completed |-> completed_cycles]))
    /\ UNCHANGED << sessions, requests, configCalls, projectFiles, config, max_cycles, cycle, rets, pauses, calls, raised, ret, msgs >>
    /\ UNCHANGED cycleLocals

\* main.py 640-642: await asyncio.sleep(3)
Pause ==
    /\ pc = "pause"
    /\ pauses' = pauses \cup {cycle}
    /\ pc' = "loop"
    /\ UNCHANGED << sessions, requests, configCalls, projectFiles, config, max_cycles, cycle, completed_cycles, rets, calls, raised, ret, log,
                    msgs >>
    /\ UNCHANGED cycleLocals

\* main.py 650-665: the session summary; the division raises for
\* max_cycles = 0.
Summary ==
    /\ pc = "summary"
    /\ IF max_cycles = 0
       THEN /\ raised' = Some([type |-> "ZeroDivisionError", text |-> "division by zero"])
            /\ pc' = "raised"
            /\ log' = log
       ELSE /\ log' = Append(log, Entry("info", "Autonomous coding session completed",
                                        [cycles_completed |-> completed_cycles,
                                         cycles_requested |-> max_cycles,
                                         success_rate |-> success_rate(completed_cycles, max_cycles)]))
            /\ pc' = "done"
            /\ raised' = raised
    /\ UNCHANGED << sessions, requests, configCalls, projectFiles, config, max_cycles, cycle, completed_cycles, rets, pauses, calls, ret,
                    msgs >>
    /\ UNCHANGED cycleLocals

Next ==
    \/ LoopNext
    \/ RunCycleBegin
    \/ OpenClient
    \/ Query
    \/ RecvText
    \/ RecvResult
    \/ RecvEnd
    \/ RecvFault
    \/ CloseClient
    \/ AfterCycle
    \/ Pause
    \/ Summary

Spec == Init /\ [][Next]_vars

\* ------------------------------------------------------------ progress
\* The steps auto_run and run_cycle take by themselves: the event loop resumes
\* the coroutine, asyncio.sleep(3) returns (main.py 642), and connect, query
\* and disconnect return or raise.
EngineStep ==
    \/ LoopNext
    \/ RunCycleBegin
    \/ OpenClient
    \/ Query
    \/ CloseClient
    \/ AfterCycle
    \/ Pause
    \/ Summary

\* Variant of StreamEnds: nothing makes a reply stream end.
StreamEnds_Stalls == pc # "recv" /\ (RecvResult \/ RecvEnd \/ RecvFault)

\* The ways "async for message in client.receive_response()" is left
\* (main.py 409-438 and the loops of steps 2-4): a ResultMessage, the end of
\* the stream, or an exception.  No timeout is among them.
StreamEnds == RecvResult \/ RecvEnd \/ RecvFault

\* auto_run(max_cycles) is called with max_cycles >= 1 and the default
\* configuration.
InitLive ==
    /\ Init
    /\ max_cycles \in 1..MaxLiveCycles
    /\ config = [base_url |-> None, model |-> None]

\* The session with the engine's steps scheduled and every reply stream ending.
FairSpec == InitLive /\ [][Next]_vars /\ WF_vars(EngineStep) /\ WF_vars(StreamEnds)

\* --------------------------------------------------- one reply on its own
\* The entries run_cycle has logged when it starts to read the reply of step
\* n of the first cycle, the earlier steps having ended with a non-error
\* ResultMessage and no text block, and the commit lookup having succeeded.
LogBeforeReply(n) ==
    LET head == << Entry("info", "Starting cycle", [cycle |-> 1, max_cycles |-> 1]),
                   Entry("info", "Starting new work cycle", [cycle |-> 1]),
                   Entry("info", "Using default API configuration",
                         [provider |-> "Anthropic Claude"]) >>
        steps == [m \in 1..4 |->
                    << StartEntry(m), OkEntry(m, get_latest_commit_info("ok", "ok")) >>]
        upto[m \in 0..4] == IF m = 0 THEN head ELSE upto[m - 1] \o steps[m]
    IN  upto[n - 1] \o << StartEntry(n) >>

\* run_cycle has sent the instruction of step n (any of the four) and starts
\* to read the reply.
InitReply ==
    /\ config = [base_url |-> None, model |-> None]
    /\ max_cycles = 1
    /\ cycle = 1
    /\ completed_cycles = 0
    /\ pc = "recv"
    /\ step \in 1..4
    /\ client = "open"
    /\ task_selected = (step > 1)
    /\ selected_task = None
    /\ commit_message = None
    /\ retval = None
    /\ exc = None
    /\ ret = None
    /\ log = LogBeforeReply(step)
    /\ sent = [n \in 1..step |-> n]
    /\ got = [n \in 1..4 |-> IF n < step THEN "ok" ELSE "none"]
    /\ inflight = {step}
    /\ rets = << >>
    /\ pauses = {}
    /\ calls = 1
    /\ faults = << >>
    /\ completed_before = 0
    /\ msgs = 0
    /\ blocks = << >>
    /\ lookups = IF step > 3 THEN << get_latest_commit_info("ok", "ok") >> ELSE << >>
    /\ sessions = {1}
    /\ requests = step
    /\ masked = None
    /\ api_info = None
    /\ custom = None
    /\ fs = ReadyProject
    /\ fs0 = EmptyProject
    /\ runs = 1
    /\ env = NoEnv
    /\ env0 = NoEnv
    /\ raised = None

\* The client delivers any of the text blocks under study.
RecvStudyText == \E text \in StudyTexts : RecvBlock(text)

NextReply == RecvStudyText \/ RecvResult

SpecReply == InitReply /\ [][NextReply]_vars

\* ------------------------------------------- get_masked_config on its own
\* Variant of StoredConfig: the getters read the environment again.
StoredConfig_Reload == load_configuration(env)

\* config.py 57, 91, 96: self.config, the dictionary the getters read.
StoredConfig == config

\* An AutocoderConfig has been constructed; no session is running.
InitMask ==
    /\ config \in MaskConfigs
    /\ max_cycles = 1
    /\ cycle = 0
    /\ completed_cycles = 0
    /\ pc = "config"
    /\ step = 0
    /\ client = "none"
    /\ task_selected = FALSE
    /\ selected_task = None
    /\ commit_message = None
    /\ retval = None
    /\ exc = None
    /\ ret = None
    /\ log = << >>
    /\ sent = << >>
    /\ got = NoResults
    /\ inflight = {}
    /\ rets = << >>
    /\ pauses = {}
    /\ calls = 0
    /\ faults = << >>
    /\ completed_before = 0
    /\ msgs = 0
    /\ blocks = << >>
    /\ lookups = << >>
    /\ sessions = {}
    /\ requests = 0
    /\ masked = None
    /\ api_info = None
    /\ custom = None
    /\ fs = ReadyProject
    /\ fs0 = EmptyProject
    /\ runs = 1
    /\ env = NoEnv
    /\ env0 = NoEnv
    /\ raised = None

\* config.py 93-103: a call of get_masked_config().
GetMaskedConfig ==
    /\ pc = "config"
    /\ masked' = Some(get_masked_config(StoredConfig))
    /\ UNCHANGED << config, max_cycles, cycle, completed_cycles, pc, rets, pauses, calls,
                    raised, ret, log, msgs, sessions, requests, api_info, custom, env, env0 >>
    /\ UNCHANGED projectFiles
    /\ UNCHANGED cycleLocals

NextMask == GetMaskedConfig

SpecMask == InitMask /\ [][NextMask]_vars

\* --------------------------------------------- AutocoderConfig on its own
\* An AutocoderConfig has just been constructed in an environment of Envs.
InitConfig ==
    /\ env0 \in Envs
    /\ env = env0
    /\ config = load_configuration(env0)
    /\ max_cycles = 1
    /\ cycle = 0
    /\ completed_cycles = 0
    /\ pc = "config"
    /\ step = 0
    /\ client = "none"
    /\ task_selected = FALSE
    /\ selected_task = None
    /\ commit_message = None
    /\ retval = None
    /\ exc = None
    /\ ret = None
    /\ log = << >>
    /\ sent = << >>
    /\ got = NoResults
    /\ inflight = {}
    /\ rets = << >>
    /\ pauses = {}
    /\ calls = 0
    /\ faults = << >>
    /\ completed_before = 0
    /\ msgs = 0
    /\ blocks = << >>
    /\ lookups = << >>
    /\ sessions = {}
    /\ requests = 0
    /\ masked = None
    /\ api_info = None
    /\ custom = None
    /\ fs = ReadyProject
    /\ fs0 = EmptyProject
    /\ runs = 1
    /\ raised = None

\* What a getter of the AutocoderConfig leaves alone: everything but its own
\* result.
ConfigFrame ==
    /\ UNCHANGED << config, max_cycles, cycle, completed_cycles, pc, rets, pauses, calls,
                    raised, ret, log, msgs, sessions, requests >>
    /\ UNCHANGED projectFiles
    /\ UNCHANGED cycleLocals

\* config.py 53-78: a call of get_api_info().
GetApiInfo ==
    /\ pc = "config"
    /\ api_info' = Some(get_api_info(StoredConfig))
    /\ UNCHANGED << masked, custom, env, env0 >>
    /\ ConfigFrame

\* config.py 89-91: a call of has_custom_config().
HasCustomConfig ==
    /\ pc = "config"
    /\ custom' = Some(has_custom_config(StoredConfig))
    /\ UNCHANGED << masked, api_info, env, env0 >>
    /\ ConfigFrame

\* The process environment changes after the construction (os.environ is
\* written, by this process or through load_dotenv of another instance).
SetEnv ==
    /\ pc = "config"
    /\ \E e \in LaterEnvs : env' = e
    /\ UNCHANGED << masked, api_info, custom, env0 >>
    /\ ConfigFrame

NextConfig == GetApiInfo \/ HasCustomConfig \/ GetMaskedConfig \/ SetEnv

SpecConfig == InitConfig /\ [][NextConfig]_vars

\* ------------------------------------- ensure_project_structure on its own
\* No Autocoder has been constructed yet on the project directory.
InitProject ==
    /\ fs0 \in Projects
    /\ fs = fs0
    /\ runs = 0
    /\ config = [base_url |-> None, model |-> None]
    /\ max_cycles = 1
    /\ cycle = 0
    /\ completed_cycles = 0
    /\ pc = "init"
    /\ step = 0
    /\ client = "none"
    /\ task_selected = FALSE
    /\ selected_task = None
    /\ commit_message = None
    /\ retval = None
    /\ exc = None
    /\ ret = None
    /\ log = << >>
    /\ sent = << >>
    /\ got = NoResults
    /\ inflight = {}
    /\ rets = << >>
    /\ pauses = {}
    /\ calls = 0
    /\ faults = << >>
    /\ completed_before = 0
    /\ msgs = 0
    /\ blocks = << >>
    /\ lookups = << >>
    /\ sessions = {}
    /\ requests = 0
    /\ masked = None
    /\ api_info = None
    /\ custom = None
    /\ env = NoEnv
    /\ env0 = NoEnv
    /\ raised = None

\* main.py 34, 62-74: an Autocoder is constructed on the project directory,
\* which calls ensure_project_structure().
EnsureProjectStructure ==
    /\ pc = "init"
    /\ runs < MaxRuns
    /\ runs' = runs + 1
    /\ \E day \in Days : fs' = ensure_project_structure(fs, day)
    /\ UNCHANGED << fs0, config, max_cycles, cycle, completed_cycles, pc, rets, pauses, calls,
                    raised, ret, log, msgs, sessions, requests >>
    /\ UNCHANGED configCalls
    /\ UNCHANGED cycleLocals

NextProject == EnsureProjectStructure

SpecProject == InitProject /\ [][NextProject]_vars

\* ============================================================ properties
InSent(n) == \E i \in 1..Len(sent) : sent[i] = n
AllTrue(seq) == \A i \in 1..Len(seq) : seq[i] = TRUE
Abs(x) == IF x < 0 THEN -x ELSE x
IsSummary(e) == e.msg = "Autonomous coding session completed"

\* C1: with max_cycles >= 1, once cycle k is the first cycle whose run_cycle
\* returned False, run_cycle has been invoked exactly k times (never for
\* k+1..max_cycles), auto_run is on its way out of the loop, and
\* completed_cycles = k - 1 up to and including the end of the session.
C1_StopsAtFirstFailure ==
    max_cycles >= 1 =>
        \A k \in 1..Len(rets) :
            (rets[k] = FALSE /\ \A j \in 1..(k - 1) : rets[j] = TRUE) =>
                /\ calls = k
                /\ Len(rets) = k
                /\ cycle = k
                /\ completed_cycles = k - 1
                /\ pc \in {"returned", "summary", "done"}

\* Case of C1: a session of MaxCycles requested cycles ended after its second
\* cycle returned False.
C1_Witness ==
    /\ pc = "done"
    /\ max_cycles = MaxCycles
    /\ rets = << TRUE, FALSE >>
    /\ completed_cycles = 1

\* C2: within one run_cycle the step 3 instruction is sent only if step 2's
\* terminal ResultMessage was received with is_error = false, and the step 4
\* instruction only if step 3's was.
C2_StrictStepOrder ==
    /\ InSent(3) => got[2] = "ok"
    /\ InSent(4) => got[3] = "ok"

\* C3 (as stated): the step 2 instruction is never sent unless step 1
\* identified a selected task.
C3_NoStep2WithoutTask == InSent(2) => ~IsNone(selected_task)

\* C3 (amended): steps 2, 3 and 4 are sent only after step 1's terminal
\* ResultMessage arrived with is_error = false; after such a reply the cycle
\* goes on to step 2 whether or not a task description was extracted.
C3_Step2NeedsOkResultOnly ==
    /\ (InSent(2) \/ InSent(3) \/ InSent(4)) => got[1] = "ok"
    /\ got[1] = "ok" => (InSent(2) \/ (pc = "query" /\ step = 2))

\* Case of C3: step 1 replied without error, no task description was
\* extracted, and the step 2 instruction has been sent.
C3_Witness ==
    /\ got[1] = "ok"
    /\ IsNone(selected_task)
    /\ InSent(2)

\* C4: a fault raised by the client while opening, querying, receiving or
\* closing never leaves run_cycle: while the cycle runs the exception is on
\* its way to the handler, and once run_cycle is over it has returned False,
\* the log holds an error entry with the description of the fault that
\* reached the handler (the last one raised), and auto_run has seen no
\* exception.
C4_FaultsBecomeFalse ==
    faults # << >> =>
        /\ raised = None
        /\ pc \in {"close", "returned", "summary", "done"}
        /\ pc = "close" => ~IsNone(exc)
        /\ pc # "close" =>
              /\ ret = Some(FALSE)
              /\ \E i \in 1..Len(log) :
                    /\ log[i].level = "error"
                    /\ log[i].msg = "Work cycle failed with exception"
                    /\ log[i].kw.error = faults[Len(faults)].text

\* Case of C4: all four steps replied without error and closing the client
\* raised; run_cycle has returned.
C4_Witness ==
    /\ pc = "returned"
    /\ \A n \in 1..4 : got[n] = "ok"
    /\ Len(faults) = 1
    /\ ret = Some(FALSE)

\* C5: after step 3's terminal reply is non-error, every outcome of the
\* commit-hash and hosted-URL lookups lets run_cycle go on to send the step 4
\* instruction.
C5_LookupNeverFailsCycle ==
    (got[3] = "ok" /\ pc # "query") => InSent(4)

\* C6: when the terminal reply of step n (n = 2, 3, 4) has is_error = true,
\* no later step's instruction is sent, run_cycle returns False, the session
\* loop stops, and completed_cycles keeps the value it had before the cycle.
C6_ErrorStopsCycle ==
    \A n \in 2..4 :
        got[n] = "error" =>
            /\ \A m \in (n + 1)..4 : ~InSent(m)
            /\ pc \in {"close", "returned", "summary", "done"}
            /\ pc = "close" => retval = Some(FALSE)
            /\ pc # "close" => ret = Some(FALSE)
            /\ completed_cycles = completed_before
            /\ calls = cycle

\* Case of C6: the session is over after its second cycle failed in step 3.
C6_Witness ==
    /\ pc = "done"
    /\ got[3] = "error"
    /\ completed_cycles = 1
    /\ sent = << 1, 2, 3 >>

\* C7: run_cycle returns True if and only if each of the four steps received
\* a terminal ResultMessage with is_error = false and no fault was raised.
C7_TrueIffAllStepsOk ==
    pc = "returned" =>
        (Get(ret) <=> ((\A n \in 1..4 : got[n] = "ok") /\ faults = << >>))

\* C8: for max_cycles >= 1, when every run_cycle returned True the session
\* ends with exactly max_cycles invocations, completed_cycles = max_cycles and
\* a logged success_rate of 100.0%.
C8_AllCyclesSucceed ==
    (pc = "done" /\ max_cycles >= 1 /\ AllTrue(rets)) =>
        /\ calls = max_cycles
        /\ Len(rets) = max_cycles
        /\ completed_cycles = max_cycles
        /\ IsSummary(log[Len(log)])
        /\ log[Len(log)].kw.cycles_completed = max_cycles
        /\ log[Len(log)].kw.success_rate = << 100, 0 >>

\* Case of C8: a session of MaxCycles cycles, all successful, is over.
C8_Witness ==
    /\ pc = "done"
    /\ max_cycles = MaxCycles
    /\ Len(rets) = MaxCycles
    /\ AllTrue(rets)

\* C9: the summary reports completed_cycles and the requested max_cycles, and
\* its success_rate is completed_cycles / max_cycles * 100 to the nearest
\* tenth, also after an early stop; with max_cycles = 5 and cycle 3 the first
\* non-successful one it reports 2 completed cycles and 40.0%.
C9_RateOverRequested ==
    pc = "done" =>
        LET e == log[Len(log)]
            tenths == 10 * e.kw.success_rate[1] + e.kw.success_rate[2]
        IN  /\ IsSummary(e)
            /\ e.kw.cycles_completed = completed_cycles
            /\ e.kw.cycles_requested = max_cycles
            /\ 2 * Abs(tenths * max_cycles - 1000 * completed_cycles) <= Abs(max_cycles)
            /\ (max_cycles = 5 /\ rets = << TRUE, TRUE, FALSE >>) =>
                  /\ e.kw.cycles_completed = 2
                  /\ e.kw.success_rate = << 40, 0 >>

\* Case of C9: a session of MaxCycles requested cycles stopped early, its
\* third cycle being the first non-successful one.
C9_Witness ==
    /\ pc = "done"
    /\ max_cycles = MaxCycles
    /\ rets = << TRUE, TRUE, FALSE >>

\* C10: at most one request is outstanding; within a cycle the instructions
\* are sent in the order 1, 2, 3, 4, each at most once and none skipped, the
\* next one only after the reply stream of the previous one reached its
\* terminal message; a cycle starts only after the previous one returned.
C10_OneRequestAtATime ==
    /\ Cardinality(inflight) <= 1
    /\ \A i \in 1..Len(sent) : sent[i] = i
    /\ \A i \in 2..Len(sent) : got[i - 1] # "none" /\ (i - 1) \notin inflight
    /\ calls - Len(rets) \in {0, 1}

\* C11: a cycle that stops because step 1's terminal reply signalled an error
\* is logged as a failure of step 1 (an error entry), under a reason that is
\* not the one used when no task is available; the session entry written when
\* the loop stops does not give one common reason for both.
C11_DistinctStopReasons ==
    got[1] = "error" =>
        /\ pc \in {"returned", "summary", "done"} =>
               \E i \in 1..Len(log) : log[i].level = "error"
        /\ \A i \in 1..Len(log) :
               /\ log[i].msg # "Step 1: No tasks available"
               /\ log[i].msg = "Session ended after cycle" =>
                      log[i].kw.reason # "No tasks available or cycle failed"

\* C12: auto_run never ends by raising: for every max_cycles the command line
\* can pass, nothing is raised out of auto_run, and once the loop is over
\* the session summary entry is the last entry of the log.
C12_SummaryAlwaysWritten ==
    /\ IsNone(raised)
    /\ pc # "raised"
    /\ pc = "done" => IsSummary(log[Len(log)])

Min(a, b) == IF a < b THEN a ELSE b

\* The pauses taken so far are the ones the claim of C13 allows: only after a
\* cycle that returned True and was not the last requested one, after every
\* such cycle, and each followed by the next cycle.
PausesWellPlaced ==
    /\ \A c \in pauses : c \in 1..Len(rets) /\ rets[c] /\ c < max_cycles
    /\ \A c \in 1..Len(rets) :
          (rets[c] /\ c < max_cycles) =>
              (c \in pauses \/ (c = cycle /\ pc \in {"returned", "pause"}))
    /\ \A c \in pauses :
          \/ calls > c
          \/ c = cycle /\ pc = "loop"
          \/ c + 1 = cycle /\ pc = "run_cycle"

\* C13: a pause happens after cycle c if and only if cycle c succeeded and
\* c < max_cycles, every pause lies between two consecutive cycles, and a
\* session performs exactly min(completed_cycles, max_cycles - 1) pauses.
C13_PauseCount ==
    /\ PausesWellPlaced
    /\ pc \in {"done", "raised"} =>
          Cardinality(pauses) = Min(completed_cycles, max_cycles - 1)

\* C13 as amended: the count min(completed_cycles, max_cycles - 1) holds for
\* max_cycles >= 1; a session with max_cycles <= 0 runs no cycle and takes no
\* pause.
C13_PauseCountFromOne ==
    /\ PausesWellPlaced
    /\ pc \in {"done", "raised"} =>
          Cardinality(pauses) = IF max_cycles >= 1
                                THEN Min(completed_cycles, max_cycles - 1)
                                ELSE 0

\* Case of C13: a session of MaxCycles cycles that paused after its first two
\* cycles and stopped at the third, which did not succeed.
C13_Witness ==
    /\ pc = "done"
    /\ max_cycles = MaxCycles
    /\ rets = << TRUE, TRUE, FALSE >>
    /\ pauses = {1, 2}

\* The masked form of a secret value longer than MaskMinLen.
HeadDotsTail(v) ==
    SubSeq(v, 1, MaskHead) \o S_dots \o SubSeq(v, Len(v) - MaskTail + 1, Len(v))

\* C14: in the result of get_masked_config every value under a key whose name
\* contains 'key' or 'token' is its first 8 characters, '...' and its last 4
\* characters when it is longer than 12 characters and '***' otherwise, and
\* is never the full secret value.
C14_SecretsMasked ==
    ~IsNone(masked) =>
        \A k \in DOMAIN config :
            (IsSecretKey(k) /\ ~IsNone(config[k])) =>
                LET v == Get(config[k])
                    o == Get(masked)[k]
                IN  /\ Len(v) > 12 => o = HeadDotsTail(v)
                    /\ Len(v) <= 12 => o = S_stars
                    /\ o # v

\* C14 as amended: the two forms of the output hold as stated; the output
\* differs from the secret except for the secret '***' and for a secret of
\* 15 characters whose 9th to 11th characters are '...', which are their own
\* masked forms.
C14_SecretsMaskedButFixpoints ==
    ~IsNone(masked) =>
        \A k \in DOMAIN config :
            (IsSecretKey(k) /\ ~IsNone(config[k])) =>
                LET v == Get(config[k])
                    o == Get(masked)[k]
                IN  /\ Len(v) > 12 => o = HeadDotsTail(v)
                    /\ Len(v) <= 12 => o = S_stars
                    /\ o = v <=> \/ v = S_stars
                                 \/ Len(v) = 15 /\ SubSeq(v, 9, 11) = S_dots

\* Case of C14: a 13-character api_key has been masked to 15 characters.
C14_Witness ==
    /\ ~IsNone(masked)
    /\ ~IsNone(config.api_key)
    /\ Len(Get(config.api_key)) = 13
    /\ Len(Get(masked).api_key) = 15
    /\ "base_url" \notin DOMAIN Get(masked)

\* The step whose reply is being read, or was read last.
CurStep == IF sent = << >> THEN 0 ELSE sent[Len(sent)]

HasMarker(line) == Contains(line, S_inprogress) \/ Contains(ToLower(line), S_tasklabel)

\* C15: extraction in steps 1 and 3 is total.  Whatever the text blocks of
\* the reply (empty, without markers, with several markers), the extracted
\* task is none or one trimmed text taken from the reply that carries a
\* marker, the extracted commit message is none or one non-empty quote-free
\* text taken from the reply, reading a text block raises nothing and ends
\* nothing, and after a non-error ResultMessage the cycle goes on to the next
\* step (the only failure then possible is the one of the commit lookup,
\* which is not part of extraction).
C15_ExtractionTotal ==
    /\ \/ IsNone(selected_task)
       \/ /\ Len(selected_task) = 1
          /\ LET t == Get(selected_task)
             IN  /\ t # << >>
                 /\ ~IsSpace(t[1]) /\ ~IsSpace(t[Len(t)])
                 /\ HasMarker(t)
                 /\ CurStep = 1 => \E i \in 1..Len(blocks) : Contains(blocks[i], t)
    /\ \/ IsNone(commit_message)
       \/ /\ Len(commit_message) = 1
          /\ LET m == Get(commit_message)
             IN  /\ m # << >>
                 /\ \A i \in 1..Len(m) : ~IsQuote(m[i])
                 /\ CurStep = 3 => \E i \in 1..Len(blocks) : Contains(blocks[i], m)
    /\ pc = "recv" => IsNone(exc) /\ IsNone(retval)
    /\ \A n \in {1, 3} :
          (CurStep = n /\ got[n] = "ok") =>
              \/ pc = "query" /\ step = n + 1 /\ IsNone(exc) /\ IsNone(retval)
              \/ n = 3 /\ ~IsNone(exc) /\ Get(exc).type = "UnboundLocalError"

\* Case of C15: the step 1 reply had an empty block and a block with two
\* marker lines, its ResultMessage was non-error, and the cycle is about to
\* send step 2.
C15_Witness ==
    /\ CurStep = 1
    /\ blocks = << T_empty, T_two >>
    /\ selected_task = Some(<<"[","~","]"," ","D">>)
    /\ got[1] = "ok"
    /\ pc = "query"
    /\ step = 2

\* The lines of a reply, block after block.
LinesOf(bs) ==
    LET f[i \in 0..Len(bs)] == IF i = 0 THEN << >> ELSE f[i - 1] \o SplitLines(bs[i])
    IN  f[Len(bs)]

\* The trimmed first line that carries a marker, if any.
FirstMarked(lines) ==
    LET hits == {i \in 1..Len(lines) : HasMarker(lines[i])}
    IN  IF hits = {} THEN None
        ELSE Some(Strip(lines[CHOOSE i \in hits : \A j \in hits : i <= j]))

\* C17: while the reply of step 1 is read and after it, the selected task is
\* the trimmed first line, in reply order over all text blocks so far, that
\* contains '[~]' or 'task:' (case-insensitive), and none only when no line
\* contains such a marker.
C17_FirstMarkerLineWins ==
    CurStep = 1 => selected_task = FirstMarked(LinesOf(blocks))

\* C17 as amended: only blocks that contain 'marking' or 'selected'
\* (case-insensitive) are searched; the selected task is the trimmed first
\* marker line of the last such block that has a marker line, and none when
\* there is no such block.
C17_LastGatedBlockWins ==
    CurStep = 1 =>
        LET gated(b) == Contains(ToLower(b), S_marking) \/ Contains(ToLower(b), S_selected)
            hits == {i \in 1..Len(blocks) :
                        gated(blocks[i]) /\ ~IsNone(FirstMarked(SplitLines(blocks[i])))}
        IN  selected_task =
                IF hits = {} THEN None
                ELSE FirstMarked(SplitLines(blocks[CHOOSE i \in hits : \A j \in hits : j <= i]))

\* Case of C17: two blocks of the step 1 reply each name a task; the one of
\* the second block is selected.
C17_Witness ==
    /\ CurStep = 1
    /\ blocks = << T_mark, T_select >>
    /\ selected_task = Some(T_select)

\* C18: while the reply of step 3 is read and after it, the commit message
\* is the quoted message of the first text block, in reply order, that
\* contains a commit invocation with a quoted message, and it is missing
\* (logged as 'See git log') only when no block has one.
C18_FirstCommitBlockWins ==
    CurStep = 3 =>
        LET hits == {i \in 1..Len(blocks) : ~IsNone(CommitMatch(blocks[i]))}
        IN  commit_message =
                IF hits = {} THEN None
                ELSE CommitMatch(blocks[CHOOSE i \in hits : \A j \in hits : i <= j])

\* The reply texts of the log entries with message m, in log order.
TextsLogged(m) ==
    LET Is(e) == e.msg = m
        sel == SelectSeq(log, Is)
    IN  [i \in 1..Len(sel) |-> sel[i].kw.text]

\* A text cut to its first L characters plus '...' when it is longer than L.
Capped(t, L) == IF Len(t) > L THEN SubSeq(t, 1, L) \o <<".", ".", ".">> ELSE t

\* The step 2 and step 4 part of C19: each text block of step 2 is logged
\* capped at 200, each text block that step 4 logs is logged capped at 150.
Steps2And4Capped ==
    /\ CurStep = 2 =>
          TextsLogged("Step 2 Implementation") = [i \in 1..Len(blocks) |-> Capped(blocks[i], 200)]
    /\ CurStep = 4 =>
          LET Reported(t) == Contains(t, S_done) \/ Contains(ToLower(t), S_completed)
              rep == SelectSeq(blocks, Reported)
          IN  TextsLogged("Step 4 Update") = [i \in 1..Len(rep) |-> Capped(rep[i], 150)]

\* C19: every reply text a step writes to the log is capped with an
\* ellipsis suffix (at 200 in step 2, at 150 in step 4), and no step, step 1
\* included, logs a reply text of unbounded length: no logged text is longer
\* than the larger cap plus the ellipsis.
C19_RepliesCapped ==
    /\ Steps2And4Capped
    /\ \A i \in 1..Len(log) :
          "text" \in DOMAIN log[i].kw => Len(log[i].kw.text) <= 200 + 3

\* C19 as amended: steps 2 and 4 cap as stated; step 1 logs every text block
\* of its reply in full, whatever its length.
C19_CappedExceptStep1 ==
    /\ Steps2And4Capped
    /\ CurStep = 1 => TextsLogged("Step 1 Response") = blocks

\* Case of C19: step 2 has logged a block of 201 characters as 203
\* characters, after a block of exactly 200 characters logged unchanged.
C19_Witness ==
    /\ CurStep = 2
    /\ blocks = << LongText(200), LongText(201) >>
    /\ Len(log[Len(log)].kw.text) = 203
    /\ Len(log[Len(log) - 1].kw.text) = 200

\* The terminal signal of step n lets the cycle go on: a non-error
\* ResultMessage, or (steps 2-4) a reply stream that ended without one.
PassedOn(n) == IF n = 1 THEN got[1] = "ok" ELSE got[n] # "error"

\* An exception reached the except handler of the current cycle.
Excepted == \E i \in 1..Len(log) : log[i].msg = "Work cycle failed with exception"

\* C16: the instructions a cycle sends and the boolean it returns are a
\* function of the terminal signals and the faults alone.  Step n + 1 is sent
\* only after step n was sent and its terminal signal let the cycle go on; a
\* cycle that ended without a fault sent step n + 1 whenever step n was sent
\* and let it go on; and the cycle returns True exactly when no fault
\* occurred, step 4 was sent and every terminal signal let it go on.  None of
\* this mentions the texts of the replies or what was extracted from them.
C16_ControlFromTerminalSignals ==
    LET clean == ~Excepted
    IN  /\ \A n \in 1..3 : InSent(n + 1) => (InSent(n) /\ PassedOn(n))
        /\ (pc = "returned" /\ clean) =>
               /\ InSent(1)
               /\ \A n \in 1..3 : (InSent(n) /\ PassedOn(n)) => InSent(n + 1)
        /\ pc = "returned" =>
               (Get(ret) <=> (clean /\ InSent(4) /\ \A n \in 1..4 : PassedOn(n)))

\* Case of C16: a cycle returned True although no task description was
\* identified in step 1, and with a commit message extracted in step 3.
C16_Witness ==
    /\ pc = "returned"
    /\ Get(ret) = TRUE
    /\ IsNone(selected_task)
    /\ ~IsNone(commit_message)
    /\ \A n \in 1..4 : got[n] = "ok"

\* The messages of the outcome entries of step n, success and failure.
OutcomeMsgs(n) ==
    CASE n = 1 -> {"Step 1: Task selected successfully", "Step 1: No tasks available"}
      [] n = 2 -> {"Step 2: Implementation completed successfully",
                   "Step 2: Implementation failed"}
      [] n = 3 -> {"Step 3: Git commit successful with GitHub link",
                   "Step 3: Git commit successful", "Step 3: Git commit completed",
                   "Step 3: Git commit failed"}
      [] n = 4 -> {"Step 4: Todo status updated successfully", "Step 4: Todo update failed"}

\* The messages of the entries that state why a cycle stopped.
StopMsgs ==
    {"Step 1: No tasks available", "Step 2: Implementation failed",
     "Step 3: Git commit failed", "Step 4: Todo update failed",
     "Work cycle failed with exception"}

Outcomes(n) == {i \in 1..Len(log) : log[i].msg \in OutcomeMsgs(n)}

\* C20: there is no silent failure path.  No step has more than one outcome
\* entry; once the cycle has moved past a step whose instruction was sent, or
\* has ended, without an exception, that step has its outcome entry; and a
\* run_cycle that returns False has written an entry that states why the
\* cycle stopped.
C20_NoSilentFailure ==
    /\ \A n \in 1..4 : Cardinality(Outcomes(n)) <= 1
    /\ \A n \in 1..4 :
          (/\ InSent(n)
           /\ IsNone(exc) /\ ~Excepted
           /\ \/ pc \in {"query", "recv"} /\ step > n
              \/ pc \in {"close", "returned"})
          => Cardinality(Outcomes(n)) = 1
    /\ (pc = "returned" /\ ret = Some(FALSE)) =>
          \E i \in 1..Len(log) : log[i].msg \in StopMsgs

\* C21: commit info is looked up at most once per cycle, and only after the
\* ResultMessage of step 3 arrived with is_error = false; in a commit info
\* that was obtained, short_hash is the first 7 characters of hash and url is
\* absent or the repository url followed by '/commit/' and the full hash.
C21_LookupOnceAfterStep3 ==
    /\ Len(lookups) <= 1
    /\ lookups # << >> => (InSent(3) /\ got[3] = "ok")
    /\ \A i \in 1..Len(lookups) :
          ~IsNone(lookups[i].info) =>
              LET c == Get(lookups[i].info)
              IN  /\ Len(c.short_hash) = 7
                  /\ c.short_hash = SubSeq(c.hash, 1, 7)
                  /\ \/ IsNone(c.url)
                     \/ Get(c.url) = RepoUrl \o <<"/","c","o","m","m","i","t","/">> \o c.hash

\* Case of C21: a cycle returned True after one lookup that gave a hash and
\* a url.
C21_Witness ==
    /\ pc = "returned"
    /\ Get(ret) = TRUE
    /\ Len(lookups) = 1
    /\ ~IsNone(lookups[1].info)
    /\ ~IsNone(Get(lookups[1].info).url)

\* C22: get_api_info classifies by the first matching rule in a fixed order.
\* Without a base URL the provider is 'Anthropic Claude', the endpoint
\* 'api.anthropic.com' and custom is false; with one, custom is true, the
\* endpoint is the URL and the provider is 'Zhipu (GLM-4.5)' if the URL
\* contains 'z.ai', else 'AWS Bedrock' if it contains 'bedrock', else
\* 'Google Vertex AI' if it contains 'vertex', else 'Custom API'.  The result
\* has a model entry exactly when a model is configured, and it is that model.
\* (An empty value counts as not configured.)
C22_ProviderByFirstRule ==
    ~IsNone(api_info) =>
        LET r == Get(api_info)
            u == config.base_url
            m == config.model
            has(o) == ~IsNone(o) /\ Len(Get(o)) > 0
        IN  /\ ~has(u) =>
                 /\ r.provider = "Anthropic Claude"
                 /\ r.endpoint = <<"a","p","i",".","a","n","t","h","r","o","p","i","c",".","c","o","m">>
                 /\ r.custom = FALSE
            /\ has(u) =>
                 /\ r.custom = TRUE
                 /\ r.endpoint = Get(u)
                 /\ Contains(Get(u), <<"z",".","a","i">>) => r.provider = "Zhipu (GLM-4.5)"
                 /\ (~Contains(Get(u), <<"z",".","a","i">>)
                     /\ Contains(Get(u), <<"b","e","d","r","o","c","k">>)) =>
                        r.provider = "AWS Bedrock"
                 /\ (~Contains(Get(u), <<"z",".","a","i">>)
                     /\ ~Contains(Get(u), <<"b","e","d","r","o","c","k">>)
                     /\ Contains(Get(u), <<"v","e","r","t","e","x">>)) =>
                        r.provider = "Google Vertex AI"
                 /\ (~Contains(Get(u), <<"z",".","a","i">>)
                     /\ ~Contains(Get(u), <<"b","e","d","r","o","c","k">>)
                     /\ ~Contains(Get(u), <<"v","e","r","t","e","x">>)) =>
                        r.provider = "Custom API"
            /\ ~IsNone(r.model) <=> has(m)
            /\ has(m) => r.model = m

\* Case of C22: a URL that contains both 'z.ai' and 'bedrock' was classified,
\* with a model configured.
C22_Witness ==
    /\ ~IsNone(api_info)
    /\ config.base_url = Some(U_zai_bedrock)
    /\ Get(api_info).provider = "Zhipu (GLM-4.5)"
    /\ Get(api_info).model = Some(<<"g","l","m">>)

\* C23: the configuration is fixed at construction.  At every point the
\* stored configuration is the one built from the environment of the
\* construction, and every result a getter has returned is the result for
\* that configuration, whatever the environment has become and whatever
\* calls were made before.
C23_ConfigFixedAtConstruction ==
    /\ config = load_configuration(env0)
    /\ ~IsNone(api_info) => Get(api_info) = get_api_info(load_configuration(env0))
    /\ ~IsNone(masked) => Get(masked) = get_masked_config(load_configuration(env0))
    /\ ~IsNone(custom) => Get(custom) = has_custom_config(load_configuration(env0))

\* Case of C23: all three getters have been called after the environment was
\* changed to one that gives another provider and another api_key.
C23_Witness ==
    /\ ~IsNone(api_info) /\ ~IsNone(masked) /\ ~IsNone(custom)
    /\ env # env0
    /\ get_api_info(load_configuration(env)).provider # Get(api_info).provider
    /\ load_configuration(env).api_key # config.api_key

\* C24: each run_cycle opens one client session and closes it on every exit
\* path before it returns.  At most one session is open at any time, and it
\* is the one of the current cycle; no session is open outside run_cycle, in
\* particular when the summary is written; and a run_cycle that has returned
\* has closed the session it opened (it opened none only when opening it
\* failed, before any request).
C24_OneSessionClosedOnExit ==
    /\ Cardinality(sessions) <= 1
    /\ sessions \subseteq {cycle}
    /\ pc \in {"loop", "run_cycle", "open", "returned", "pause", "summary", "done", "raised"}
          => sessions = {}
    /\ pc \in {"query", "recv", "close"} => (sessions = {cycle} /\ client = "open")
    /\ pc = "returned" =>
          \/ client = "closed"
          \/ client = "none" /\ sent = << >> /\ Excepted /\ ret = Some(FALSE)

\* Case of C24: the second cycle has returned False after a fault raised
\* while the reply of step 2 was read, and its session is closed.
C24_Witness ==
    /\ pc = "returned"
    /\ cycle = 2
    /\ sent = << 1, 2 >>
    /\ faults # << >>
    /\ client = "closed"
    /\ sessions = {}

Max(a, b) == IF a < b THEN b ELSE a

\* The part of C25 that does not mention max_cycles: completed_cycles is
\* between 0 and the number of run_cycle invocations, which exceeds it by at
\* most 1, and completed_cycles = c - 1 when cycle c starts.
CountersInStep ==
    /\ 0 <= completed_cycles
    /\ completed_cycles <= calls
    /\ calls - completed_cycles <= 1
    /\ pc = "run_cycle" => completed_cycles = cycle - 1

\* C25: in every reachable state of auto_run,
\* 0 <= completed_cycles <= invocations of run_cycle <= max_cycles, the
\* invocations exceed completed_cycles by at most 1, and completed_cycles is
\* c - 1 at the start of cycle c.
C25_CountersBounded ==
    /\ CountersInStep
    /\ calls <= max_cycles

\* C25 as amended: the number of invocations is at most max_cycles when
\* max_cycles >= 0 and is 0 when max_cycles is negative.
C25_CountersBoundedFromZero ==
    /\ CountersInStep
    /\ calls <= Max(max_cycles, 0)

\* Case of C25: the third of MaxCycles cycles did not succeed; there were
\* three invocations and two completed cycles.
C25_Witness ==
    /\ pc = "summary"
    /\ max_cycles = MaxCycles
    /\ calls = 3
    /\ completed_cycles = 2

\* C26: project initialisation never overwrites.  After any number of
\* constructions every path that existed before the first one holds what it
\* held then, every path that was missing exists, and running
\* ensure_project_structure once more, on any day, changes nothing.
C26_NeverOverwrites ==
    runs >= 1 =>
        /\ \A p \in Paths : ~IsNone(fs0[p]) => fs[p] = fs0[p]
        /\ \A p \in Paths : ~IsNone(fs[p])
        /\ \A p \in Paths \ {AgentsDir} :
              IsNone(fs0[p]) => \E d \in Days : fs[p] = Some(Template(p, d))
        /\ \A d \in Days : ensure_project_structure(fs, d) = fs

\* Case of C26: two constructions on a project that had the user's todo.md
\* and developer.md but no agents of the other two kinds.
C26_Witness ==
    /\ runs = 2
    /\ fs0[TodoFile] = Some(<< "user text" >>)
    /\ fs0["developer.md"] = Some(<< >>)
    /\ IsNone(fs0["git-agent.md"])
    /\ fs[TodoFile] = Some(<< "user text" >>)
    /\ fs["developer.md"] = Some(<< >>)
    /\ fs["git-agent.md"] = Some(Template("git-agent.md", 1))

\* auto_run has returned or raised.
Terminated == pc \in {"done", "raised"}

\* C27: when every reply stream ends, auto_run(max_cycles) with
\* max_cycles >= 1 terminates, having run at most max_cycles cycles and sent
\* at most 4 * max_cycles requests; and the wait for a reply is left only by
\* an event of the stream, never by a timeout of the engine.
C27_TerminatesWithinBudget ==
    /\ [](max_cycles >= 1 => calls <= max_cycles /\ requests <= 4 * max_cycles)
    /\ ((max_cycles >= 1) ~> Terminated)
    /\ [][pc = "recv" /\ pc' # "recv" => RecvResult \/ RecvEnd \/ RecvFault]_vars

\* Case of C27: a session of two full cycles has ended after eight requests.
C27_Witness ==
    /\ pc = "done"
    /\ max_cycles = 2
    /\ calls = 2
    /\ requests = 8

====
